---- MODULE Spec2Model ----
(***************************************************************************)
(* Model of pkg/httpclient/client.go of data-ingestion-pipeline-go: the    *)
(* rate-limited, retrying HTTP client.                                     *)
(*                                                                         *)
(*  - the token pool is the buffered channel hc.rateLimiter, filled by New *)
(*    and refilled by the ticker goroutine New starts;                     *)
(*  - every call (Get/Post/Put/Delete) runs doRequestWithRetry, whose      *)
(*    suspension points are the token select, the network call and the     *)
(*    retry-delay select;                                                  *)
(*  - doRequest and isRetryableError are operators on error values.        *)
(*                                                                         *)
(* Go's select picks uniformly among the cases that are ready when it is   *)
(* evaluated and otherwise blocks until the first case becomes ready; a    *)
(* goroutine blocked in a select is woken with the case that fired first.  *)
(***************************************************************************)
EXTENDS Integers, Sequences, FiniteSets, TLC

\* ------------------------------------------------------------------ bounds
MaxRetry == 2
MaxRate == 2
MaxTicks == 2
NumCalls == 2
MaxStatus == 999
ConcMaxRetry == 1
ConcMaxRate == 1
MaxURLLen == 3
MaxEvals == 3

Calls == 1..NumCalls

VARIABLES
    RetryCount,    \* config.RetryCount
    RateLimit,     \* config.RateLimit
    rateLimiter,   \* number of tokens buffered in the channel hc.rateLimiter
    recvq,         \* calls blocked receiving from hc.rateLimiter, in arrival order
    refill,        \* the refill goroutine: "spawned", "running", "panicked"
    ticks,         \* ticker ticks delivered so far
    refilled,      \* ticks whose token was accepted (buffered or handed over)
    pc,            \* per call: where its goroutine stands
    req,           \* per call: the arguments of the call
    attempt,       \* per call: loop variable of doRequestWithRetry
    lastErr,       \* per call: local variable lastErr
    ret,           \* per call: the value returned to the caller
    cancelAt,      \* per call: pc at which ctx.Done() was closed, or "never"
    invocations,   \* per call: number of doRequest invocations
    invAtCancel,   \* per call: invocations when ctx.Done() was closed
    netCalls,      \* per call: number of hc.client.Do round trips started
    consumed,      \* per call: tokens received from hc.rateLimiter
    delays,        \* per call: retry delays waited to the end
    delayAtCancel, \* per call: delays when ctx.Done() was closed
    errs,          \* per call: the set of values doRequest has returned
    returned,      \* per call: number of doRequest invocations that have returned
    opened,        \* per call: responses hc.client.Do has delivered (resp.Body open)
    closed,        \* per call: resp.Body.Close() calls made
    logs,          \* per call: the entries handed to hc.logger, in order
    probe,         \* classifier check: the error handed to isRetryableError
    classified,    \* classifier check: whether isRetryableError has run
    verdict,       \* classifier check: what isRetryableError returned
    BaseURL,       \* URL check: config.BaseURL, a sequence of characters
    path,          \* URL check: the path handed to buildURL
    fullURL,       \* URL check: what buildURL returned
    built,         \* URL check: "no", "yes", or "panic" when buildURL panicked
    execReq,       \* executor check: method, url, body and result of doRequest
    execCtxDone,   \* executor check: whether ctx.Done() is closed at entry
    execOut,       \* executor check: what hc.client.Do and io.ReadAll deliver
    execErr,       \* executor check: what doRequest returned
    executed,      \* executor check: whether doRequest has run
    execDest,      \* executor check: what the destination (result) holds
    evals,         \* purity check: evaluations of isRetryableError(probe) so far
    verdicts       \* purity check: the values those evaluations returned

vars == <<RetryCount, RateLimit, rateLimiter, recvq, refill, ticks, refilled,
          pc, req, attempt, lastErr, ret, cancelAt, invocations, invAtCancel,
          netCalls, consumed, delays, delayAtCancel, errs,
          returned, opened, closed, logs,
          probe, classified, verdict, BaseURL, path, fullURL, built,
          execReq, execCtxDone, execOut, execErr, executed, execDest,
          evals, verdicts>>

clientVars == <<RetryCount, RateLimit>>
poolVars == <<rateLimiter, recvq, refill, ticks, refilled>>
attemptVars == <<returned, opened, closed>>
execVars == <<execReq, execCtxDone, execOut, execErr, executed, execDest>>
pureVars == <<evals, verdicts>>
probeVars == <<probe, classified, verdict, BaseURL, path, fullURL, built,
               execVars, pureVars>>

\* ------------------------------------------------------------ error values
\* A nil error.
NilErr == [type |-> "nil"]

\* Before the call has returned.
Pending == [type |-> "pending"]

\* ctx.Err(): context.Canceled or context.DeadlineExceeded.
CtxErr == [type |-> "ctx"]

\* &HTTPError{Method, URL, StatusCode, Message, Duration}; URL and Duration
\* do not take part in any decision and are left out.
HTTPError(method, status, msg) ==
    [type |-> "HTTPError", method |-> method, status |-> status, msg |-> msg]

\* fmt.Errorf("<msg>: %w", err): an error that is not an *HTTPError.
PlainError(msg) == [type |-> "error", msg |-> msg]

\* fmt.Errorf("request failed after %d attempts: %w", RetryCount+1, lastErr)
Exhausted(n, err) == [type |-> "exhausted", n |-> n, err |-> err]

\* ----------------------------------------------------- the public methods
Get(url, result) ==
    [method |-> "GET", url |-> url, body |-> "nil", result |-> result]

Post(url, body, result) ==
    [method |-> "POST", url |-> url, body |-> body, result |-> result]

Put(url, body, result) ==
    [method |-> "PUT", url |-> url, body |-> body, result |-> result]

Delete(url) ==
    [method |-> "DELETE", url |-> url, body |-> "nil", result |-> FALSE]

\* The calls the model issues. url: "ok" parses, "bad" does not; body: "nil",
\* "ok" (json.Marshal succeeds) or "bad" (json.Marshal fails, e.g. a channel);
\* result: whether a destination is passed.
Requests ==
    { Get("ok", TRUE), Get("bad", TRUE), Delete("ok"),
      Post("ok", "ok", TRUE), Post("ok", "bad", TRUE), Put("ok", "ok", FALSE) }

NoRequest == [method |-> "none", url |-> "ok", body |-> "nil", result |-> FALSE]

\* ------------------------------------------------- the upstream's answers
\* What hc.client.Do and io.ReadAll can deliver for one round trip.
NetErr(msg) == [kind |-> "neterr", msg |-> msg]

Response(status, body, readable) ==
    [kind |-> "resp", status |-> status, body |-> body, readable |-> readable]

ValidJSON == "{\"id\":7}"

Responses ==
    { Response(200, ValidJSON, TRUE), Response(200, "", TRUE),
      Response(200, "<html>", TRUE), Response(200, ValidJSON, FALSE),
      Response(400, "bad request", TRUE), Response(404, "not found", TRUE),
      Response(500, "internal error", TRUE),
      Response(503, "unavailable", TRUE) }

\* json.Unmarshal(respBody, result) succeeds
Unmarshals(body) == body = ValidJSON


\* ------------------------------------------------------------- classifier
\* http.StatusTooManyRequests and http.StatusRequestTimeout
StatusTooManyRequests == 429
StatusRequestTimeout == 408

\* isRetryableError as the classifier would read with the type test failing
\* open for every error (a mutant of isRetryableError).
isRetryableError_always(err) == TRUE

\* isRetryableError reading the client: a 5xx is retried only while a token
\* is left in hc.rateLimiter (a mutant of isRetryableError).
isRetryableError_budget(err) ==
    IF err.type = "HTTPError"
    THEN \/ err.status >= 500 /\ rateLimiter > 0
         \/ err.status = StatusTooManyRequests
         \/ err.status = StatusRequestTimeout
    ELSE TRUE

\* isRetryableError (client.go:264-276)
isRetryableError(err) ==
    IF err.type = "HTTPError"
    THEN \/ err.status >= 500
         \/ err.status = StatusTooManyRequests
         \/ err.status = StatusRequestTimeout
    ELSE TRUE

\* --------------------------------------------------------------- executor
\* The round trip of hc.client.Do is under way.
InFlight == [type |-> "inflight"]

\* doRequest up to the entry of hc.client.Do (client.go:180-207): the error
\* it returns without a round trip, or InFlight when the round trip is under
\* way. ctxDone: ctx.Done() is closed when Do is entered, and the
\* transport returns ctx.Err() before dialling.
doRequestEnter(r, ctxDone) ==
    IF r.body # "nil" /\ r.body = "bad"
    THEN PlainError("failed to marshal request body")
    ELSE IF r.url = "bad"
    THEN PlainError("failed to create request")
    ELSE IF ctxDone
    THEN HTTPError(r.method, 0, "context canceled")
    ELSE InFlight

\* doRequest from the return of hc.client.Do on, with the status test reading
\* resp.StatusCode > 300, so that 300 passes for a success (a mutant of
\* doRequestFinish).
doRequestFinish_gt300(r, out) ==
    IF out.kind = "neterr"
    THEN HTTPError(r.method, 0, out.msg)
    ELSE IF ~out.readable
    THEN PlainError("failed to read response body")
    ELSE IF out.status < 200 \/ out.status > 300
    THEN HTTPError(r.method, out.status, out.body)
    ELSE IF r.result /\ Len(out.body) > 0 /\ ~Unmarshals(out.body)
    THEN PlainError("failed to unmarshal response")
    ELSE NilErr

\* doRequest from the return of hc.client.Do on, with the error of Do wrapped
\* by fmt.Errorf instead of put into an *HTTPError (a mutant of
\* doRequestFinish).
doRequestFinish_plainNetErr(r, out) ==
    IF out.kind = "neterr"
    THEN PlainError(out.msg)
    ELSE IF ~out.readable
    THEN PlainError("failed to read response body")
    ELSE IF out.status < 200 \/ out.status >= 300
    THEN HTTPError(r.method, out.status, out.body)
    ELSE IF r.result /\ Len(out.body) > 0 /\ ~Unmarshals(out.body)
    THEN PlainError("failed to unmarshal response")
    ELSE NilErr

\* doRequest from the return of hc.client.Do on, with the error of
\* json.Unmarshal dropped (a mutant of doRequestFinish).
doRequestFinish_ignoreDecode(r, out) ==
    IF out.kind = "neterr"
    THEN HTTPError(r.method, 0, out.msg)
    ELSE IF ~out.readable
    THEN PlainError("failed to read response body")
    ELSE IF out.status < 200 \/ out.status >= 300
    THEN HTTPError(r.method, out.status, out.body)
    ELSE NilErr

\* doRequest from the return of hc.client.Do on (client.go:210-246).
doRequestFinish(r, out) ==
    IF out.kind = "neterr"
    THEN HTTPError(r.method, 0, out.msg)
    ELSE IF ~out.readable
    THEN PlainError("failed to read response body")
    ELSE IF out.status < 200 \/ out.status >= 300
    THEN HTTPError(r.method, out.status, out.body)
    ELSE IF r.result /\ Len(out.body) > 0 /\ ~Unmarshals(out.body)
    THEN PlainError("failed to unmarshal response")
    ELSE NilErr

\* The destination as the caller passed it: nothing has been decoded into it.
Untouched == "untouched"

\* What the destination holds when doRequest has returned (client.go:239-244):
\* json.Unmarshal is reached only with a response of a 2xx status whose body
\* was read and is not empty, and with a destination passed; it fills the
\* destination from a body that is JSON and rejects any other before it
\* writes.
doRequestResult(r, ctxDone, out) ==
    IF /\ doRequestEnter(r, ctxDone) = InFlight
       /\ out.kind = "resp"
       /\ out.readable
       /\ out.status >= 200 /\ out.status < 300
       /\ r.result
       /\ Len(out.body) > 0
       /\ Unmarshals(out.body)
    THEN out.body
    ELSE Untouched

\* doRequest as a whole (client.go:180-247): out is what the round trip
\* delivers if one is made.
doRequest(r, ctxDone, out) ==
    LET e == doRequestEnter(r, ctxDone)
    IN  IF e = InFlight THEN doRequestFinish(r, out) ELSE e

\* What a round trip that is under way can end with: a transport failure, a
\* response, or, once ctx.Done() is closed, the context's error.
NetOutcomes(ctxDone) ==
    {NetErr("connection refused")} \cup Responses
        \cup (IF ctxDone THEN {NetErr("context canceled")} ELSE {})

\* ----------------------------------------------------------- orchestrator
\* The entries doRequestWithRetry hands to hc.logger: the level, the message
\* and the value of the field "attempt" or "attempts" (0 where the entry has
\* neither).
\* hc.logger.Debug("HTTP request successful", ..., attempt+1) (client.go:127-131)
DebugSuccess(n) ==
    [level |-> "debug", msg |-> "HTTP request successful", attempt |-> n]

\* hc.logger.Warn("Request failed, retrying", ..., attempt+1, ...) (client.go:149-155)
WarnRetrying(n) ==
    [level |-> "warn", msg |-> "Request failed, retrying", attempt |-> n]

\* hc.logger.Error("Non-retryable error, stopping retries", ...) (client.go:139-143)
ErrorNonRetryable ==
    [level |-> "error", msg |-> "Non-retryable error, stopping retries",
     attempt |-> 0]

\* hc.logger.Error("All retries exhausted", ..., RetryCount+1, ...) (client.go:168-173)
ErrorExhausted(n) ==
    [level |-> "error", msg |-> "All retries exhausted", attempt |-> n]

\* One call of hc.logger by call c.
Log(c, e) == logs' = [logs EXCEPT ![c] = Append(@, e)]

\* The loop condition of doRequestWithRetry with < for <= (a mutant).
LoopCondition_lt(a) == a < RetryCount

\* The loop condition counting retries from 1: one iteration too many (a
\* mutant of LoopCondition).
LoopCondition_extra(a) == a <= RetryCount + 1

\* for attempt := 0; attempt <= hc.config.RetryCount; attempt++ (client.go:113)
LoopCondition(a) == a <= RetryCount

\* The call returns v (client.go:120, 132, 144, 162, 175).
Return(c, v) ==
    /\ pc' = [pc EXCEPT ![c] = "done"]
    /\ ret' = [ret EXCEPT ![c] = v]

\* The loop header with the exhaustion error left out: the function ends
\* with return nil (a mutant of LoopHead).
LoopHead_nil(c, a, last) ==
    /\ attempt' = [attempt EXCEPT ![c] = a]
    /\ IF LoopCondition(a)
       THEN /\ pc' = [pc EXCEPT ![c] = "tokenSelect"]
            /\ UNCHANGED <<ret, logs>>
       ELSE /\ Log(c, ErrorExhausted(RetryCount + 1))
            /\ Return(c, NilErr)

\* The loop header with the token select ahead of the loop instead of inside
\* it: only the first attempt waits for a token (a mutant of LoopHead).
LoopHead_tokenOnce(c, a, last) ==
    /\ attempt' = [attempt EXCEPT ![c] = a]
    /\ IF LoopCondition(a)
       THEN /\ pc' = [pc EXCEPT ![c] = IF a = 0 THEN "tokenSelect" ELSE "request"]
            /\ UNCHANGED <<ret, logs>>
       ELSE /\ Log(c, ErrorExhausted(RetryCount + 1))
            /\ Return(c, Exhausted(RetryCount + 1, last))

\* The loop header of a loop that tests its condition after the body: the
\* first attempt is made whatever RetryCount is (a mutant of LoopHead).
LoopHead_bodyFirst(c, a, last) ==
    /\ attempt' = [attempt EXCEPT ![c] = a]
    /\ IF a = 0 \/ LoopCondition(a)
       THEN /\ pc' = [pc EXCEPT ![c] = "tokenSelect"]
            /\ UNCHANGED <<ret, logs>>
       ELSE /\ Log(c, ErrorExhausted(RetryCount + 1))
            /\ Return(c, Exhausted(RetryCount + 1, last))

\* The loop header: attempt has the value a; either the body is entered at
\* the token select or the loop is left and the exhaustion error returned
\* (client.go:113, 167-175).
LoopHead(c, a, last) ==
    /\ attempt' = [attempt EXCEPT ![c] = a]
    /\ IF LoopCondition(a)
       THEN /\ pc' = [pc EXCEPT ![c] = "tokenSelect"]
            /\ UNCHANGED <<ret, logs>>
       ELSE /\ Log(c, ErrorExhausted(RetryCount + 1))
            /\ Return(c, Exhausted(RetryCount + 1, last))

\* doRequest has returned err, with the non-retryable error wrapped with the
\* attempt count before it is returned (a mutant of AfterRequest).
AfterRequest_wrap(c, err) ==
    /\ errs' = [errs EXCEPT ![c] = @ \cup {err}]
    /\ returned' = [returned EXCEPT ![c] = @ + 1]
    /\ IF err = NilErr
       THEN /\ Log(c, DebugSuccess(attempt[c] + 1))
            /\ Return(c, NilErr)
            /\ UNCHANGED <<lastErr, attempt>>
       ELSE /\ lastErr' = [lastErr EXCEPT ![c] = err]
            /\ IF ~isRetryableError(err)
               THEN /\ Log(c, ErrorNonRetryable)
                    /\ Return(c, Exhausted(attempt[c] + 1, err))
                    /\ UNCHANGED attempt
               ELSE IF attempt[c] < RetryCount
               THEN /\ Log(c, WarnRetrying(attempt[c] + 1))
                    /\ pc' = [pc EXCEPT ![c] = "delaySelect"]
                    /\ UNCHANGED <<ret, attempt>>
               ELSE LoopHead(c, attempt[c] + 1, err)

\* doRequest has returned err, with lastErr assigned only while it is nil, so
\* that the first error is the one kept (a mutant of AfterRequest).
AfterRequest_keepFirst(c, err) ==
    LET kept == IF lastErr[c] = NilErr THEN err ELSE lastErr[c]
    IN  /\ errs' = [errs EXCEPT ![c] = @ \cup {err}]
        /\ returned' = [returned EXCEPT ![c] = @ + 1]
        /\ IF err = NilErr
           THEN /\ Log(c, DebugSuccess(attempt[c] + 1))
                /\ Return(c, NilErr)
                /\ UNCHANGED <<lastErr, attempt>>
           ELSE /\ lastErr' = [lastErr EXCEPT ![c] = kept]
                /\ IF ~isRetryableError(err)
                   THEN /\ Log(c, ErrorNonRetryable)
                        /\ Return(c, err)
                        /\ UNCHANGED attempt
                   ELSE IF attempt[c] < RetryCount
                   THEN /\ Log(c, WarnRetrying(attempt[c] + 1))
                        /\ pc' = [pc EXCEPT ![c] = "delaySelect"]
                        /\ UNCHANGED <<ret, attempt>>
                   ELSE LoopHead(c, attempt[c] + 1, kept)

\* doRequest has returned err, with the retry delay left out: the loop goes
\* on to the next attempt at once (a mutant of AfterRequest).
AfterRequest_nodelay(c, err) ==
    /\ errs' = [errs EXCEPT ![c] = @ \cup {err}]
    /\ returned' = [returned EXCEPT ![c] = @ + 1]
    /\ IF err = NilErr
       THEN /\ Log(c, DebugSuccess(attempt[c] + 1))
            /\ Return(c, NilErr)
            /\ UNCHANGED <<lastErr, attempt>>
       ELSE /\ lastErr' = [lastErr EXCEPT ![c] = err]
            /\ IF ~isRetryableError(err)
               THEN /\ Log(c, ErrorNonRetryable)
                    /\ Return(c, err)
                    /\ UNCHANGED attempt
               ELSE LoopHead(c, attempt[c] + 1, err)

\* doRequest has returned err, with the test before the delay reading
\* attempt <= RetryCount, so that the delay is waited after the last attempt
\* as well (a mutant of AfterRequest).
AfterRequest_delayLast(c, err) ==
    /\ errs' = [errs EXCEPT ![c] = @ \cup {err}]
    /\ returned' = [returned EXCEPT ![c] = @ + 1]
    /\ IF err = NilErr
       THEN /\ Log(c, DebugSuccess(attempt[c] + 1))
            /\ Return(c, NilErr)
            /\ UNCHANGED <<lastErr, attempt>>
       ELSE /\ lastErr' = [lastErr EXCEPT ![c] = err]
            /\ IF ~isRetryableError(err)
               THEN /\ Log(c, ErrorNonRetryable)
                    /\ Return(c, err)
                    /\ UNCHANGED attempt
               ELSE IF attempt[c] <= RetryCount
               THEN /\ Log(c, WarnRetrying(attempt[c] + 1))
                    /\ pc' = [pc EXCEPT ![c] = "delaySelect"]
                    /\ UNCHANGED <<ret, attempt>>
               ELSE LoopHead(c, attempt[c] + 1, err)

\* doRequest has returned err, with the return nil of the success case
\* missing: a nil error goes on to the classifier like any other (a mutant
\* of AfterRequest).
AfterRequest_noreturn(c, err) ==
    /\ errs' = [errs EXCEPT ![c] = @ \cup {err}]
    /\ returned' = [returned EXCEPT ![c] = @ + 1]
    /\ lastErr' = [lastErr EXCEPT ![c] = err]
    /\ IF ~isRetryableError(err)
       THEN /\ Log(c, ErrorNonRetryable)
            /\ Return(c, err)
            /\ UNCHANGED attempt
       ELSE IF attempt[c] < RetryCount
       THEN /\ Log(c, WarnRetrying(attempt[c] + 1))
            /\ pc' = [pc EXCEPT ![c] = "delaySelect"]
            /\ UNCHANGED <<ret, attempt>>
       ELSE LoopHead(c, attempt[c] + 1, err)

\* doRequest has returned err, with the success entry carrying the loop
\* variable attempt instead of attempt+1 (a mutant of AfterRequest).
AfterRequest_logIndex(c, err) ==
    /\ errs' = [errs EXCEPT ![c] = @ \cup {err}]
    /\ returned' = [returned EXCEPT ![c] = @ + 1]
    /\ IF err = NilErr
       THEN /\ Log(c, DebugSuccess(attempt[c]))
            /\ Return(c, NilErr)
            /\ UNCHANGED <<lastErr, attempt>>
       ELSE /\ lastErr' = [lastErr EXCEPT ![c] = err]
            /\ IF ~isRetryableError(err)
               THEN /\ Log(c, ErrorNonRetryable)
                    /\ Return(c, err)
                    /\ UNCHANGED attempt
               ELSE IF attempt[c] < RetryCount
               THEN /\ Log(c, WarnRetrying(attempt[c] + 1))
                    /\ pc' = [pc EXCEPT ![c] = "delaySelect"]
                    /\ UNCHANGED <<ret, attempt>>
               ELSE LoopHead(c, attempt[c] + 1, err)

\* doRequest has returned err: client.go:125-164 up to the next suspension.
AfterRequest(c, err) ==
    /\ errs' = [errs EXCEPT ![c] = @ \cup {err}]
    /\ returned' = [returned EXCEPT ![c] = @ + 1]
    /\ IF err = NilErr
       THEN /\ Log(c, DebugSuccess(attempt[c] + 1))
            /\ Return(c, NilErr)
            /\ UNCHANGED <<lastErr, attempt>>
       ELSE /\ lastErr' = [lastErr EXCEPT ![c] = err]
            /\ IF ~isRetryableError(err)
               THEN /\ Log(c, ErrorNonRetryable)
                    /\ Return(c, err)
                    /\ UNCHANGED attempt
               ELSE IF attempt[c] < RetryCount
               THEN /\ Log(c, WarnRetrying(attempt[c] + 1))
                    /\ pc' = [pc EXCEPT ![c] = "delaySelect"]
                    /\ UNCHANGED <<ret, attempt>>
               ELSE LoopHead(c, attempt[c] + 1, err)


\* case <-ctx.Done(): return ctx.Err() of the token select, with the return
\* missing, so that the call falls through to doRequest (a mutant).
TokenCtxDone_fallthrough(c) ==
    /\ pc' = [pc EXCEPT ![c] = "request"]
    /\ UNCHANGED ret

\* case <-ctx.Done(): return ctx.Err() of the token select (client.go:119-120)
TokenCtxDone(c) == Return(c, CtxErr)

\* case <-ctx.Done() of the delay select, with the return missing, so that
\* the loop goes on to the next attempt (a mutant).
DelayCtxDone_fallthrough(c) ==
    /\ LoopHead(c, attempt[c] + 1, lastErr[c])

\* case <-ctx.Done(): return ctx.Err() of the delay select (client.go:161-162)
DelayCtxDone(c) ==
    /\ Return(c, CtxErr)
    /\ UNCHANGED <<attempt, logs>>

\* case <-time.After(hc.config.RetryDelay) (client.go:159-160, 113)
DelayElapsed(c) ==
    /\ delays' = [delays EXCEPT ![c] = @ + 1]
    /\ LoopHead(c, attempt[c] + 1, lastErr[c])

Running == refill # "panicked"

Cancelled(c) == cancelAt[c] # "never"

\* ---------------------------------------------------------------- actions
\* A caller invokes Get, Post, Put or Delete (client.go:85-113).
Start(c, r) ==
    /\ Running
    /\ pc[c] = "idle"
    /\ req' = [req EXCEPT ![c] = r]
    /\ LoopHead(c, 0, NilErr)
    /\ UNCHANGED <<lastErr, cancelAt, invocations, invAtCancel, netCalls,
                   consumed, delays, delayAtCancel, errs>>
    /\ UNCHANGED <<clientVars, attemptVars, poolVars, probeVars>>

\* The token select with a receive that leaves the token in the channel, as
\* a test of len(hc.rateLimiter) > 0 would (a mutant of TokenSelect).
TokenSelect_peek(c) ==
    /\ Running
    /\ pc[c] = "tokenSelect"
    /\ \/ /\ rateLimiter > 0
          /\ pc' = [pc EXCEPT ![c] = "request"]
          /\ UNCHANGED <<rateLimiter, consumed, ret, recvq>>
       \/ /\ Cancelled(c)
          /\ TokenCtxDone(c)
          /\ UNCHANGED <<rateLimiter, consumed, recvq>>
       \/ /\ rateLimiter = 0
          /\ ~Cancelled(c)
          /\ recvq' = Append(recvq, c)
          /\ pc' = [pc EXCEPT ![c] = "tokenBlocked"]
          /\ UNCHANGED <<rateLimiter, consumed, ret>>
    /\ UNCHANGED <<req, attempt, lastErr, cancelAt, invocations, invAtCancel,
                   netCalls, delays, delayAtCancel, errs>>
    /\ UNCHANGED <<clientVars, attemptVars, logs, refill, ticks, refilled, probeVars>>

\* The token select with a ctx.Done() case that drains a token from the
\* channel before it returns (a mutant of TokenSelect).
TokenSelect_drain(c) ==
    /\ Running
    /\ pc[c] = "tokenSelect"
    /\ \/ /\ rateLimiter > 0
          /\ rateLimiter' = rateLimiter - 1
          /\ consumed' = [consumed EXCEPT ![c] = @ + 1]
          /\ pc' = [pc EXCEPT ![c] = "request"]
          /\ UNCHANGED <<ret, recvq>>
       \/ /\ Cancelled(c)
          /\ TokenCtxDone(c)
          /\ rateLimiter' = IF rateLimiter > 0 THEN rateLimiter - 1 ELSE 0
          /\ UNCHANGED <<consumed, recvq>>
       \/ /\ rateLimiter = 0
          /\ ~Cancelled(c)
          /\ recvq' = Append(recvq, c)
          /\ pc' = [pc EXCEPT ![c] = "tokenBlocked"]
          /\ UNCHANGED <<rateLimiter, consumed, ret>>
    /\ UNCHANGED <<req, attempt, lastErr, cancelAt, invocations, invAtCancel,
                   netCalls, delays, delayAtCancel, errs>>
    /\ UNCHANGED <<clientVars, attemptVars, logs, refill, ticks, refilled, probeVars>>

\* The token select behind a ticket discipline: a call takes a token only
\* when no call issued before it still waits for its first token (a mutant
\* of TokenSelect).
TokenSelect_fifo(c) ==
    /\ Running
    /\ pc[c] = "tokenSelect"
    /\ \/ /\ rateLimiter > 0
          /\ \A d \in Calls :
                d < c => ~(pc[d] \in {"tokenSelect", "tokenBlocked"}
                             /\ consumed[d] = 0)
          /\ rateLimiter' = rateLimiter - 1
          /\ consumed' = [consumed EXCEPT ![c] = @ + 1]
          /\ pc' = [pc EXCEPT ![c] = "request"]
          /\ UNCHANGED <<ret, recvq>>
       \/ /\ Cancelled(c)
          /\ TokenCtxDone(c)
          /\ UNCHANGED <<rateLimiter, consumed, recvq>>
       \/ /\ rateLimiter = 0
          /\ ~Cancelled(c)
          /\ recvq' = Append(recvq, c)
          /\ pc' = [pc EXCEPT ![c] = "tokenBlocked"]
          /\ UNCHANGED <<rateLimiter, consumed, ret>>
    /\ UNCHANGED <<req, attempt, lastErr, cancelAt, invocations, invAtCancel,
                   netCalls, delays, delayAtCancel, errs>>
    /\ UNCHANGED <<clientVars, attemptVars, logs, refill, ticks, refilled, probeVars>>

\* The select on hc.rateLimiter and ctx.Done() is evaluated (client.go:116-121).
TokenSelect(c) ==
    /\ Running
    /\ pc[c] = "tokenSelect"
    /\ \/ /\ rateLimiter > 0
          /\ rateLimiter' = rateLimiter - 1
          /\ consumed' = [consumed EXCEPT ![c] = @ + 1]
          /\ pc' = [pc EXCEPT ![c] = "request"]
          /\ UNCHANGED <<ret, recvq>>
       \/ /\ Cancelled(c)
          /\ TokenCtxDone(c)
          /\ UNCHANGED <<rateLimiter, consumed, recvq>>
       \/ /\ rateLimiter = 0
          /\ ~Cancelled(c)
          /\ recvq' = Append(recvq, c)
          /\ pc' = [pc EXCEPT ![c] = "tokenBlocked"]
          /\ UNCHANGED <<rateLimiter, consumed, ret>>
    /\ UNCHANGED <<req, attempt, lastErr, cancelAt, invocations, invAtCancel,
                   netCalls, delays, delayAtCancel, errs>>
    /\ UNCHANGED <<clientVars, attemptVars, logs, refill, ticks, refilled, probeVars>>

\* A call woken from the token select by ctx.Done() returns (client.go:119-120).
TokenCtxWoken(c) ==
    /\ Running
    /\ pc[c] = "tokenCtxWoken"
    /\ TokenCtxDone(c)
    /\ UNCHANGED <<req, attempt, lastErr, cancelAt, invocations, invAtCancel,
                   netCalls, consumed, delays, delayAtCancel, errs>>
    /\ UNCHANGED <<clientVars, attemptVars, logs, poolVars, probeVars>>

\* doRequest is entered and runs up to hc.client.Do, which it calls a second
\* time when the first call fails: a retry of its own (a mutant of
\* DoRequest).
DoRequest_twice(c) ==
    /\ Running
    /\ pc[c] = "request"
    /\ invocations' = [invocations EXCEPT ![c] = @ + 1]
    /\ LET e == doRequestEnter(req[c], Cancelled(c))
       IN  IF e = InFlight
           THEN /\ pc' = [pc EXCEPT ![c] = "inflight"]
                /\ netCalls' = [netCalls EXCEPT ![c] = @ + 2]
                /\ UNCHANGED <<errs, returned, ret, lastErr, attempt, logs>>
           ELSE /\ AfterRequest(c, e)
                /\ UNCHANGED netCalls
    /\ UNCHANGED <<req, cancelAt, invAtCancel, consumed, delays, delayAtCancel>>
    /\ UNCHANGED <<opened, closed>>
    /\ UNCHANGED <<clientVars, poolVars, probeVars>>

\* doRequest is entered and runs up to hc.client.Do (client.go:124, 180-207).
DoRequest(c) ==
    /\ Running
    /\ pc[c] = "request"
    /\ invocations' = [invocations EXCEPT ![c] = @ + 1]
    /\ LET e == doRequestEnter(req[c], Cancelled(c))
       IN  IF e = InFlight
           THEN /\ pc' = [pc EXCEPT ![c] = "inflight"]
                /\ netCalls' = [netCalls EXCEPT ![c] = @ + 1]
                /\ UNCHANGED <<errs, returned, ret, lastErr, attempt, logs>>
           ELSE /\ AfterRequest(c, e)
                /\ UNCHANGED netCalls
    /\ UNCHANGED <<req, cancelAt, invAtCancel, consumed, delays, delayAtCancel>>
    /\ UNCHANGED <<opened, closed>>
    /\ UNCHANGED <<clientVars, poolVars, probeVars>>

\* hc.client.Do returns and doRequest runs to its end, with the deferred
\* resp.Body.Close() missing: the body of a response stays open (a mutant of
\* Respond).
Respond_leak(c, out) ==
    /\ Running
    /\ pc[c] = "inflight"
    /\ opened' = [opened EXCEPT ![c] = IF out.kind = "resp" THEN @ + 1 ELSE @]
    /\ UNCHANGED closed
    /\ AfterRequest(c, doRequestFinish(req[c], out))
    /\ UNCHANGED <<req, cancelAt, invocations, invAtCancel, netCalls, consumed,
                   delays, delayAtCancel>>
    /\ UNCHANGED <<clientVars, poolVars, probeVars>>

\* hc.client.Do returns and doRequest runs to its end, with resp.Body.Close()
\* called before return nil instead of deferred: the body is closed on the
\* success path only (a mutant of Respond).
Respond_closeOnSuccess(c, out) ==
    /\ Running
    /\ pc[c] = "inflight"
    /\ opened' = [opened EXCEPT ![c] = IF out.kind = "resp" THEN @ + 1 ELSE @]
    /\ closed' = [closed EXCEPT ![c] =
                     IF out.kind = "resp" /\ doRequestFinish(req[c], out) = NilErr
                     THEN @ + 1 ELSE @]
    /\ AfterRequest(c, doRequestFinish(req[c], out))
    /\ UNCHANGED <<req, cancelAt, invocations, invAtCancel, netCalls, consumed,
                   delays, delayAtCancel>>
    /\ UNCHANGED <<clientVars, poolVars, probeVars>>

\* hc.client.Do returns and doRequest runs to its end (client.go:207-246).
\* With a response, resp.Body is open from the return of Do and the deferred
\* resp.Body.Close() (client.go:219) runs when doRequest returns, on every
\* path.
Respond(c, out) ==
    /\ Running
    /\ pc[c] = "inflight"
    /\ opened' = [opened EXCEPT ![c] = IF out.kind = "resp" THEN @ + 1 ELSE @]
    /\ closed' = [closed EXCEPT ![c] = IF out.kind = "resp" THEN @ + 1 ELSE @]
    /\ AfterRequest(c, doRequestFinish(req[c], out))
    /\ UNCHANGED <<req, cancelAt, invocations, invAtCancel, netCalls, consumed,
                   delays, delayAtCancel>>
    /\ UNCHANGED <<clientVars, poolVars, probeVars>>

\* The select on time.After and ctx.Done() is evaluated (client.go:158-163).
\* With ctx.Done() closed, the timer may have expired as well by the time
\* the select runs, and then either case is taken.
DelaySelect(c) ==
    /\ Running
    /\ pc[c] = "delaySelect"
    /\ \/ /\ ~Cancelled(c)
          /\ pc' = [pc EXCEPT ![c] = "delayBlocked"]
          /\ UNCHANGED <<ret, attempt, delays, logs>>
       \/ /\ Cancelled(c)
          /\ DelayCtxDone(c)
          /\ UNCHANGED delays
       \/ /\ Cancelled(c)
          /\ DelayElapsed(c)
    /\ UNCHANGED <<req, lastErr, cancelAt, invocations, invAtCancel, netCalls,
                   consumed, delayAtCancel, errs>>
    /\ UNCHANGED <<clientVars, attemptVars, poolVars, probeVars>>

\* The retry delay of a call blocked in the delay select runs out
\* (client.go:159-160).
TimerFire(c) ==
    /\ Running
    /\ pc[c] = "delayBlocked"
    /\ DelayElapsed(c)
    /\ UNCHANGED <<req, lastErr, cancelAt, invocations, invAtCancel, netCalls,
                   consumed, delayAtCancel, errs>>
    /\ UNCHANGED <<clientVars, attemptVars, poolVars, probeVars>>

\* A call woken from the delay select by ctx.Done() returns (client.go:161-162).
DelayCtxWoken(c) ==
    /\ Running
    /\ pc[c] = "delayCtxWoken"
    /\ DelayCtxDone(c)
    /\ UNCHANGED <<req, lastErr, cancelAt, invocations, invAtCancel, netCalls,
                   consumed, delays, delayAtCancel, errs>>
    /\ UNCHANGED <<clientVars, attemptVars, poolVars, probeVars>>

RemoveFromQueue(q, c) == SelectSeq(q, LAMBDA x : x # c)

\* ctx.Done() is closed but a call blocked in a select is not woken, as if the
\* select had no ctx.Done() case (a mutant of Cancel).
Cancel_nowake(c) ==
    /\ Running
    /\ pc[c] \notin {"unused", "done"}
    /\ ~Cancelled(c)
    /\ cancelAt' = [cancelAt EXCEPT ![c] = pc[c]]
    /\ invAtCancel' = [invAtCancel EXCEPT ![c] = invocations[c]]
    /\ delayAtCancel' = [delayAtCancel EXCEPT ![c] = delays[c]]
    /\ UNCHANGED <<pc, recvq>>
    /\ UNCHANGED <<req, attempt, lastErr, ret, invocations, netCalls, consumed,
                   delays, errs>>
    /\ UNCHANGED <<clientVars, attemptVars, logs, rateLimiter, refill, ticks, refilled, probeVars>>

\* ctx.Done() is closed and a call that holds a token it has not used yet
\* sends it back to hc.rateLimiter (a mutant of Cancel).
Cancel_refund(c) ==
    /\ Running
    /\ pc[c] \notin {"unused", "done"}
    /\ ~Cancelled(c)
    /\ cancelAt' = [cancelAt EXCEPT ![c] = pc[c]]
    /\ invAtCancel' = [invAtCancel EXCEPT ![c] = invocations[c]]
    /\ delayAtCancel' = [delayAtCancel EXCEPT ![c] = delays[c]]
    /\ pc' = [pc EXCEPT ![c] =
                IF @ = "tokenBlocked" THEN "tokenCtxWoken"
                ELSE IF @ = "delayBlocked" THEN "delayCtxWoken"
                ELSE @]
    /\ recvq' = RemoveFromQueue(recvq, c)
    /\ rateLimiter' = IF pc[c] = "request" /\ rateLimiter < RateLimit
                      THEN rateLimiter + 1
                      ELSE rateLimiter
    /\ UNCHANGED <<req, attempt, lastErr, ret, invocations, netCalls, consumed,
                   delays, errs>>
    /\ UNCHANGED <<clientVars, attemptVars, logs, refill, ticks, refilled, probeVars>>

\* The caller cancels ctx or its deadline passes: ctx.Done() is closed. A
\* call blocked in a select is woken with the ctx.Done() case.
Cancel(c) ==
    /\ Running
    /\ pc[c] \notin {"unused", "done"}
    /\ ~Cancelled(c)
    /\ cancelAt' = [cancelAt EXCEPT ![c] = pc[c]]
    /\ invAtCancel' = [invAtCancel EXCEPT ![c] = invocations[c]]
    /\ delayAtCancel' = [delayAtCancel EXCEPT ![c] = delays[c]]
    /\ pc' = [pc EXCEPT ![c] =
                IF @ = "tokenBlocked" THEN "tokenCtxWoken"
                ELSE IF @ = "delayBlocked" THEN "delayCtxWoken"
                ELSE @]
    /\ recvq' = RemoveFromQueue(recvq, c)
    /\ UNCHANGED <<req, attempt, lastErr, ret, invocations, netCalls, consumed,
                   delays, errs>>
    /\ UNCHANGED <<clientVars, attemptVars, logs, rateLimiter, refill, ticks, refilled, probeVars>>

\* The refill goroutine starts: time.Second / time.Duration(config.RateLimit)
\* divides by zero for RateLimit = 0 and the panic ends the process
\* (client.go:61-63).
RefillStart ==
    /\ refill = "spawned"
    /\ refill' = IF RateLimit = 0 THEN "panicked" ELSE "running"
    /\ UNCHANGED <<clientVars, attemptVars, logs, rateLimiter, recvq, ticks, refilled, probeVars>>
    /\ UNCHANGED <<pc, req, attempt, lastErr, ret, cancelAt, invocations,
                   invAtCancel, netCalls, consumed, delays, delayAtCancel, errs>>

\* One tick of a refill goroutine that sends without regard to the capacity
\* of hc.rateLimiter, as an unbounded queue would take it (a mutant of Tick).
Tick_unbounded ==
    /\ refill = "running"
    /\ ticks < MaxTicks
    /\ ticks' = ticks + 1
    /\ IF recvq # <<>>
       THEN /\ recvq' = Tail(recvq)
            /\ pc' = [pc EXCEPT ![Head(recvq)] = "request"]
            /\ consumed' = [consumed EXCEPT ![Head(recvq)] = @ + 1]
            /\ refilled' = refilled + 1
            /\ UNCHANGED rateLimiter
       ELSE /\ rateLimiter' = rateLimiter + 1
            /\ refilled' = refilled + 1
            /\ UNCHANGED <<recvq, pc, consumed>>
    /\ UNCHANGED <<clientVars, attemptVars, logs, refill, probeVars>>
    /\ UNCHANGED <<req, attempt, lastErr, ret, cancelAt, invocations,
                   invAtCancel, netCalls, delays, delayAtCancel, errs>>

\* One tick whose token is handed to the blocked receiver and buffered as
\* well, so that it can be taken twice (a mutant of Tick).
Tick_twice ==
    /\ refill = "running"
    /\ ticks < MaxTicks
    /\ ticks' = ticks + 1
    /\ IF recvq # <<>>
       THEN /\ recvq' = Tail(recvq)
            /\ pc' = [pc EXCEPT ![Head(recvq)] = "request"]
            /\ consumed' = [consumed EXCEPT ![Head(recvq)] = @ + 1]
            /\ refilled' = refilled + 1
            /\ rateLimiter' = rateLimiter + 1
       ELSE IF rateLimiter < RateLimit
       THEN /\ rateLimiter' = rateLimiter + 1
            /\ refilled' = refilled + 1
            /\ UNCHANGED <<recvq, pc, consumed>>
       ELSE UNCHANGED <<rateLimiter, refilled, recvq, pc, consumed>>
    /\ UNCHANGED <<clientVars, attemptVars, logs, refill, probeVars>>
    /\ UNCHANGED <<req, attempt, lastErr, ret, cancelAt, invocations,
                   invAtCancel, netCalls, delays, delayAtCancel, errs>>

\* One tick of the refill goroutine: a non-blocking send on hc.rateLimiter
\* (client.go:65-72). A send finds the first blocked receiver, else a free
\* buffer slot, else takes the default case.
Tick ==
    /\ refill = "running"
    /\ ticks < MaxTicks
    /\ ticks' = ticks + 1
    /\ IF recvq # <<>>
       THEN /\ recvq' = Tail(recvq)
            /\ pc' = [pc EXCEPT ![Head(recvq)] = "request"]
            /\ consumed' = [consumed EXCEPT ![Head(recvq)] = @ + 1]
            /\ refilled' = refilled + 1
            /\ UNCHANGED rateLimiter
       ELSE IF rateLimiter < RateLimit
       THEN /\ rateLimiter' = rateLimiter + 1
            /\ refilled' = refilled + 1
            /\ UNCHANGED <<recvq, pc, consumed>>
       ELSE UNCHANGED <<rateLimiter, refilled, recvq, pc, consumed>>
    /\ UNCHANGED <<clientVars, attemptVars, logs, refill, probeVars>>
    /\ UNCHANGED <<req, attempt, lastErr, ret, cancelAt, invocations,
                   invAtCancel, netCalls, delays, delayAtCancel, errs>>

\* ----------------------------------------------------------- specification
\* New without the loop that fills the channel: the pool starts empty (a
\* mutant of InitClient).
InitClient_empty(issued) ==
    /\ RetryCount \in -1..MaxRetry
    /\ RateLimit \in 0..MaxRate
    /\ rateLimiter = 0
    /\ recvq = <<>>
    /\ refill = "spawned"
    /\ ticks = 0
    /\ refilled = 0
    /\ pc = [c \in Calls |-> IF c \in issued THEN "idle" ELSE "unused"]
    /\ req = [c \in Calls |-> NoRequest]
    /\ attempt = [c \in Calls |-> 0]
    /\ lastErr = [c \in Calls |-> NilErr]
    /\ ret = [c \in Calls |-> Pending]
    /\ cancelAt = [c \in Calls |-> "never"]
    /\ invocations = [c \in Calls |-> 0]
    /\ invAtCancel = [c \in Calls |-> 0]
    /\ netCalls = [c \in Calls |-> 0]
    /\ consumed = [c \in Calls |-> 0]
    /\ delays = [c \in Calls |-> 0]
    /\ delayAtCancel = [c \in Calls |-> 0]
    /\ errs = [c \in Calls |-> {}]
    /\ returned = [c \in Calls |-> 0]
    /\ opened = [c \in Calls |-> 0]
    /\ closed = [c \in Calls |-> 0]
    /\ logs = [c \in Calls |-> <<>>]

\* New has returned (client.go:44-81): the pool is full, the refill goroutine
\* is spawned. issued: the calls a caller will make.
InitClient(issued) ==
    /\ RetryCount \in -1..MaxRetry
    /\ RateLimit \in 0..MaxRate
    /\ rateLimiter = RateLimit
    /\ recvq = <<>>
    /\ refill = "spawned"
    /\ ticks = 0
    /\ refilled = 0
    /\ pc = [c \in Calls |-> IF c \in issued THEN "idle" ELSE "unused"]
    /\ req = [c \in Calls |-> NoRequest]
    /\ attempt = [c \in Calls |-> 0]
    /\ lastErr = [c \in Calls |-> NilErr]
    /\ ret = [c \in Calls |-> Pending]
    /\ cancelAt = [c \in Calls |-> "never"]
    /\ invocations = [c \in Calls |-> 0]
    /\ invAtCancel = [c \in Calls |-> 0]
    /\ netCalls = [c \in Calls |-> 0]
    /\ consumed = [c \in Calls |-> 0]
    /\ delays = [c \in Calls |-> 0]
    /\ delayAtCancel = [c \in Calls |-> 0]
    /\ errs = [c \in Calls |-> {}]
    /\ returned = [c \in Calls |-> 0]
    /\ opened = [c \in Calls |-> 0]
    /\ closed = [c \in Calls |-> 0]
    /\ logs = [c \in Calls |-> <<>>]

\* buildURL is not under check.
NoURL ==
    /\ BaseURL = <<>>
    /\ path = <<>>
    /\ fullURL = <<>>
    /\ built = "no"

\* isRetryableError has not been evaluated on the probe.
NoEvals ==
    /\ evals = 0
    /\ verdicts = {}

\* doRequest on its own is not under check.
NoExec ==
    /\ execReq = NoRequest
    /\ execCtxDone = FALSE
    /\ execOut = NetErr("")
    /\ execErr = NilErr
    /\ executed = FALSE
    /\ execDest = Untouched

\* One call through the client, next to the refill goroutine.
Init ==
    /\ InitClient({1})
    /\ probe = NilErr
    /\ classified = FALSE
    /\ verdict = FALSE
    /\ NoURL
    /\ NoExec
    /\ NoEvals

Next ==
    \/ \E c \in Calls, r \in Requests : Start(c, r)
    \/ \E c \in Calls : TokenSelect(c)
    \/ \E c \in Calls : TokenCtxWoken(c)
    \/ \E c \in Calls : DoRequest(c)
    \/ \E c \in Calls : \E out \in NetOutcomes(Cancelled(c)) : Respond(c, out)
    \/ \E c \in Calls : DelaySelect(c)
    \/ \E c \in Calls : TimerFire(c)
    \/ \E c \in Calls : DelayCtxWoken(c)
    \/ \E c \in Calls : Cancel(c)
    \/ RefillStart
    \/ Tick

Spec == Init /\ [][Next]_vars

\* The steps call c takes on its own: the goroutine running doRequestWithRetry
\* is scheduled when it can run, net/http returns from Do (at the latest when
\* the client's Timeout or ctx ends the round trip) and the timer of
\* time.After fires. The ticker and the caller's cancellation are not among
\* them.
CallStep(c) ==
    \/ TokenSelect(c)
    \/ TokenCtxWoken(c)
    \/ DoRequest(c)
    \/ \E out \in NetOutcomes(Cancelled(c)) : Respond(c, out)
    \/ DelaySelect(c)
    \/ TimerFire(c)
    \/ DelayCtxWoken(c)

\* Spec with the calls' goroutines scheduled fairly. No fairness is stated
\* for Tick: the refill goroutine may never deliver a tick.
SpecLive == Spec /\ \A c \in Calls : WF_vars(CallStep(c))

\* ------------------------------------------------- concurrent callers
\* Every call of Calls is issued, concurrently, through the one client. The
\* callers all issue a Get, the upstream answers 200 or 503, RetryCount is
\* at most ConcMaxRetry and RateLimit at most ConcMaxRate, so that there are
\* more callers than tokens.
ConcRequests == {Get("ok", TRUE)}

ConcOutcomes ==
    {Response(200, ValidJSON, TRUE), Response(503, "unavailable", TRUE)}

InitConc ==
    /\ InitClient(Calls)
    /\ RetryCount \in 0..ConcMaxRetry
    /\ RateLimit \in 0..ConcMaxRate
    /\ probe = NilErr
    /\ classified = FALSE
    /\ verdict = FALSE
    /\ NoURL
    /\ NoExec
    /\ NoEvals

NextConc ==
    \/ \E c \in Calls, r \in ConcRequests : Start(c, r)
    \/ \E c \in Calls : TokenSelect(c)
    \/ \E c \in Calls : TokenCtxWoken(c)
    \/ \E c \in Calls : DoRequest(c)
    \/ \E c \in Calls : \E out \in ConcOutcomes : Respond(c, out)
    \/ \E c \in Calls : DelaySelect(c)
    \/ \E c \in Calls : TimerFire(c)
    \/ \E c \in Calls : DelayCtxWoken(c)
    \/ \E c \in Calls : Cancel(c)
    \/ RefillStart
    \/ Tick

SpecConc == InitConc /\ [][NextConc]_vars


\* ------------------------------------- concurrent callers, issued in order
\* The callers issue their calls one after the other: call c enters
\* doRequestWithRetry, and reaches its first token select, after every call
\* of a lower number has. When each goroutine then runs its select is up to
\* the scheduler.
StartInOrder(c, r) ==
    /\ \A d \in Calls : d < c => pc[d] # "idle"
    /\ Start(c, r)

\* The order of the first token selects is what is looked at: RetryCount is
\* 0, every call makes one attempt and the delay select is never reached.
InitOrder ==
    /\ InitClient(Calls)
    /\ RetryCount = 0
    /\ RateLimit \in 1..ConcMaxRate
    /\ probe = NilErr
    /\ classified = FALSE
    /\ verdict = FALSE
    /\ NoURL
    /\ NoExec
    /\ NoEvals

NextOrder ==
    \/ \E c \in Calls, r \in ConcRequests : StartInOrder(c, r)
    \/ \E c \in Calls : TokenSelect(c)
    \/ \E c \in Calls : TokenCtxWoken(c)
    \/ \E c \in Calls : DoRequest(c)
    \/ \E c \in Calls : \E out \in ConcOutcomes : Respond(c, out)
    \/ \E c \in Calls : Cancel(c)
    \/ RefillStart
    \/ Tick

SpecOrder == InitOrder /\ [][NextOrder]_vars

\* ------------------------------------------- the refill goroutine, fairly
\* for range ticker.C { select { case rateLimiter <- struct{}{}: default: } }
\* with the send blocking instead of guarded by a default case: a tick is
\* processed only when a receiver waits or the buffer has room (a mutant of
\* Ticker).
Ticker_blocking ==
    /\ refill = "running"
    /\ recvq # <<>> \/ rateLimiter < RateLimit
    /\ ticks' = IF ticks < MaxTicks THEN ticks + 1 ELSE ticks
    /\ IF recvq # <<>>
       THEN /\ recvq' = Tail(recvq)
            /\ pc' = [pc EXCEPT ![Head(recvq)] = "request"]
            /\ consumed' = [consumed EXCEPT ![Head(recvq)] = @ + 1]
            /\ refilled' = refilled + 1
            /\ UNCHANGED rateLimiter
       ELSE IF rateLimiter < RateLimit
       THEN /\ rateLimiter' = rateLimiter + 1
            /\ refilled' = refilled + 1
            /\ UNCHANGED <<recvq, pc, consumed>>
       ELSE UNCHANGED <<rateLimiter, refilled, recvq, pc, consumed>>
    /\ UNCHANGED <<clientVars, attemptVars, logs, refill, probeVars>>
    /\ UNCHANGED <<req, attempt, lastErr, ret, cancelAt, invocations,
                   invAtCancel, netCalls, delays, delayAtCancel, errs>>

\* The loop of the refill goroutine without an end: for range ticker.C and
\* the non-blocking send of client.go:65-72, as in Tick, with the count of
\* ticks stopping at MaxTicks while the ticks go on.
Ticker ==
    /\ refill = "running"
    /\ ticks' = IF ticks < MaxTicks THEN ticks + 1 ELSE ticks
    /\ IF recvq # <<>>
       THEN /\ recvq' = Tail(recvq)
            /\ pc' = [pc EXCEPT ![Head(recvq)] = "request"]
            /\ consumed' = [consumed EXCEPT ![Head(recvq)] = @ + 1]
            /\ refilled' = refilled + 1
            /\ UNCHANGED rateLimiter
       ELSE IF rateLimiter < RateLimit
       THEN /\ rateLimiter' = rateLimiter + 1
            /\ refilled' = refilled + 1
            /\ UNCHANGED <<recvq, pc, consumed>>
       ELSE UNCHANGED <<rateLimiter, refilled, recvq, pc, consumed>>
    /\ UNCHANGED <<clientVars, attemptVars, logs, refill, probeVars>>
    /\ UNCHANGED <<req, attempt, lastErr, ret, cancelAt, invocations,
                   invAtCancel, netCalls, delays, delayAtCancel, errs>>

\* Two callers contend for the tokens; further calls are not issued.
FairCalls == {c \in Calls : c <= 2}

InitFair ==
    /\ InitClient(FairCalls)
    /\ RetryCount \in 0..ConcMaxRetry
    /\ RateLimit \in 0..ConcMaxRate
    /\ probe = NilErr
    /\ classified = FALSE
    /\ verdict = FALSE
    /\ NoURL
    /\ NoExec
    /\ NoEvals

\* The steps call c takes on its own when the upstream answers 200 or 503.
FairStep(c) ==
    \/ TokenSelect(c)
    \/ TokenCtxWoken(c)
    \/ DoRequest(c)
    \/ \E out \in ConcOutcomes : Respond(c, out)
    \/ DelaySelect(c)
    \/ TimerFire(c)
    \/ DelayCtxWoken(c)

NextFair ==
    \/ \E c \in Calls, r \in ConcRequests : Start(c, r)
    \/ \E c \in Calls : FairStep(c)
    \/ \E c \in Calls : Cancel(c)
    \/ RefillStart
    \/ Ticker

\* The concurrent callers with the refill goroutine and the calls'
\* goroutines scheduled fairly: the goroutine of New is started, the ticker
\* keeps ticking, every round trip ends and every timer fires. Whether and
\* when a caller issues or cancels a call is left open.
SpecFair ==
    /\ InitFair
    /\ [][NextFair]_vars
    /\ WF_vars(RefillStart)
    /\ WF_vars(Ticker)
    /\ \A c \in Calls : WF_vars(FairStep(c))

\* ------------------------------------------- the classifier on its own
\* The errors handed to isRetryableError: an *HTTPError of every status a
\* response can carry (net/http reads three digits), of status 0, and the
\* errors doRequest builds with fmt.Errorf.
ErrorValues ==
    {HTTPError("GET", s, "") : s \in 0..MaxStatus}
        \cup {PlainError(m) : m \in {"failed to marshal request body",
                                     "failed to create request",
                                     "failed to read response body",
                                     "failed to unmarshal response"}}

\* hc.isRetryableError(probe) is evaluated (client.go:138, 264-276).
Classify ==
    /\ ~classified
    /\ classified' = TRUE
    /\ verdict' = isRetryableError(probe)
    /\ UNCHANGED <<probe, BaseURL, path, fullURL, built, execVars, pureVars>>
    /\ UNCHANGED <<clientVars, attemptVars, logs, poolVars>>
    /\ UNCHANGED <<pc, req, attempt, lastErr, ret, cancelAt, invocations,
                   invAtCancel, netCalls, consumed, delays, delayAtCancel, errs>>

InitClassify ==
    /\ InitClient({})
    /\ probe \in ErrorValues
    /\ classified = FALSE
    /\ verdict = FALSE
    /\ NoURL
    /\ NoExec
    /\ NoEvals

NextClassify == Classify

SpecClassify == InitClassify /\ [][NextClassify]_vars

\* ------------------------------- the classifier next to a running call
\* The errors the classifier is evaluated on, again and again, while a call
\* goes through the client: one of each kind the classifier tells apart.
PureProbes ==
    {HTTPError("GET", st, "") : st \in {0, 404, 408, 429, 500, 503}}
        \cup {PlainError("failed to unmarshal response")}

\* hc.isRetryableError(probe) is evaluated once more (client.go:264-276), in
\* whatever state the client is in.
Evaluate ==
    /\ evals < MaxEvals
    /\ evals' = evals + 1
    /\ classified' = TRUE
    /\ verdict' = isRetryableError(probe)
    /\ verdicts' = verdicts \cup {isRetryableError(probe)}
    /\ UNCHANGED <<probe, BaseURL, path, fullURL, built, execVars>>
    /\ UNCHANGED <<clientVars, attemptVars, logs, poolVars>>
    /\ UNCHANGED <<pc, req, attempt, lastErr, ret, cancelAt, invocations,
                   invAtCancel, netCalls, consumed, delays, delayAtCancel, errs>>

InitPure ==
    /\ InitClient({1})
    /\ RetryCount \in 0..ConcMaxRetry
    /\ RateLimit \in 1..ConcMaxRate
    /\ probe \in PureProbes
    /\ classified = FALSE
    /\ verdict = FALSE
    /\ NoURL
    /\ NoExec
    /\ NoEvals

NextPure ==
    \/ \E c \in Calls, r \in ConcRequests : Start(c, r)
    \/ \E c \in Calls : TokenSelect(c)
    \/ \E c \in Calls : TokenCtxWoken(c)
    \/ \E c \in Calls : DoRequest(c)
    \/ \E c \in Calls : \E out \in ConcOutcomes : Respond(c, out)
    \/ \E c \in Calls : DelaySelect(c)
    \/ \E c \in Calls : TimerFire(c)
    \/ \E c \in Calls : DelayCtxWoken(c)
    \/ \E c \in Calls : Cancel(c)
    \/ RefillStart
    \/ Tick
    \/ Evaluate

SpecPure == InitPure /\ [][NextPure]_vars

\* ------------------------------------------------- buildURL on its own
\* Strings are sequences of characters; "a" stands for any character that
\* is not a slash.
Chars == {"a", "/"}

Strings == UNION {[1..n -> Chars] : n \in 0..MaxURLLen}

\* buildURL (client.go:250-261). path[0] on an empty path is an index out of
\* range and panics.
buildURL(base, p) ==
    IF base = <<>>
    THEN [panic |-> FALSE, url |-> p]
    ELSE IF p = <<>>
    THEN [panic |-> TRUE, url |-> <<>>]
    ELSE [panic |-> FALSE,
          url |-> base \o (IF p[1] # "/" THEN <<"/">> \o p ELSE p)]

\* fullURL := hc.buildURL(url) (client.go:110).
BuildURL ==
    /\ built = "no"
    /\ LET r == buildURL(BaseURL, path)
       IN  /\ built' = IF r.panic THEN "panic" ELSE "yes"
           /\ fullURL' = r.url
    /\ UNCHANGED <<BaseURL, path, probe, classified, verdict, execVars,
                   pureVars>>
    /\ UNCHANGED <<clientVars, attemptVars, logs, poolVars>>
    /\ UNCHANGED <<pc, req, attempt, lastErr, ret, cancelAt, invocations,
                   invAtCancel, netCalls, consumed, delays, delayAtCancel, errs>>

InitURL ==
    /\ InitClient({})
    /\ probe = NilErr
    /\ classified = FALSE
    /\ verdict = FALSE
    /\ BaseURL \in Strings
    /\ path \in Strings
    /\ fullURL = <<>>
    /\ built = "no"
    /\ NoExec
    /\ NoEvals

NextURL == BuildURL

SpecURL == InitURL /\ [][NextURL]_vars

\* ------------------------------------------------- doRequest on its own
\* The bodies a response can carry: none, JSON, and text that is not JSON.
ExecBodies == {"", ValidJSON, "<html>"}

\* What the round trip of one doRequest can deliver: a transport failure, the
\* deadline passing in flight, or a response of any three-digit status whose
\* body io.ReadAll reads or fails to read.
ExecOutcomes ==
    {NetErr("connection refused"), NetErr("context deadline exceeded")}
        \cup {Response(st, b, rd) :
                  st \in 100..MaxStatus, b \in ExecBodies, rd \in BOOLEAN}

\* err := hc.doRequest(ctx, method, fullURL, body, result) (client.go:124).
Execute ==
    /\ ~executed
    /\ executed' = TRUE
    /\ execErr' = doRequest(execReq, execCtxDone, execOut)
    /\ execDest' = doRequestResult(execReq, execCtxDone, execOut)
    /\ UNCHANGED <<execReq, execCtxDone, execOut>>
    /\ UNCHANGED <<probe, classified, verdict, BaseURL, path, fullURL, built,
                   pureVars>>
    /\ UNCHANGED <<clientVars, attemptVars, logs, poolVars>>
    /\ UNCHANGED <<pc, req, attempt, lastErr, ret, cancelAt, invocations,
                   invAtCancel, netCalls, consumed, delays, delayAtCancel, errs>>

\* With ctx.Done() closed at entry the transport returns ctx.Err() without a
\* round trip. doRequest reads nothing of the configuration: one
\* configuration stands for all.
InitExec ==
    /\ InitClient({})
    /\ RetryCount = 0
    /\ RateLimit = 1
    /\ probe = NilErr
    /\ classified = FALSE
    /\ verdict = FALSE
    /\ NoURL
    /\ execReq \in Requests
    /\ execCtxDone \in BOOLEAN
    /\ execOut \in (IF execCtxDone THEN {NetErr("context canceled")}
                                   ELSE ExecOutcomes)
    /\ execErr = NilErr
    /\ executed = FALSE
    /\ execDest = Untouched
    /\ NoEvals

NextExec == Execute

SpecExec == InitExec /\ [][NextExec]_vars

\* ------------------------------------------------------------------ claims
\* The statuses the specification calls retryable: 5xx, 429 and 408.
RetryableStatus(s) == s \in 500..599 \/ s = 429 \/ s = 408

\* A status of a received response that is an error and not retryable.
NonRetryableStatus(s) ==
    /\ s \in 100..MaxStatus
    /\ ~(s \in 200..299)
    /\ ~RetryableStatus(s)

Done(c) == pc[c] = "done"

\* Every value doRequest has returned to call c is an *HTTPError with a
\* retryable status: the target has answered nothing else.
OnlyRetryableStatuses(c) ==
    /\ errs[c] # {}
    /\ \A e \in errs[c] : e.type = "HTTPError" /\ RetryableStatus(e.status)

\* Every value doRequest has returned to call c is a transport failure.
OnlyTransportFailures(c) ==
    /\ errs[c] # {}
    /\ \A e \in errs[c] : e.type = "HTTPError" /\ e.status = 0

\* C1: with RetryCount = R >= 0 and a context that is never cancelled, a call
\* whose every attempt is answered with a retryable status has invoked
\* doRequest exactly R+1 times when it returns, and returns the exhaustion
\* error.
C1_RetryCountInvariant ==
    \A c \in Calls :
        (Done(c) /\ ~Cancelled(c) /\ RetryCount >= 0 /\ OnlyRetryableStatuses(c))
            => /\ invocations[c] = RetryCount + 1
               /\ ret[c].type = "exhausted"

\* C1 witness: a call with R >= 1 whose attempts were all answered 503 has
\* returned after R+1 invocations.
C1_Witness ==
    \E c \in Calls :
        /\ Done(c) /\ ~Cancelled(c) /\ RetryCount >= 1
        /\ errs[c] = {HTTPError(req[c].method, 503, "unavailable")}
        /\ invocations[c] = RetryCount + 1

\* C2: a call whose first attempt (attempt = 0) received a non-retryable
\* status has returned that error after exactly one invocation, one token
\* and no retry delay, whatever RetryCount is.
C2_NonRetryableShortCircuit ==
    \A c \in Calls :
        (/\ attempt[c] = 0
         /\ lastErr[c].type = "HTTPError"
         /\ NonRetryableStatus(lastErr[c].status))
            => /\ Done(c)
               /\ ret[c] = lastErr[c]
               /\ invocations[c] = 1
               /\ consumed[c] = 1
               /\ delays[c] = 0

\* C2 witness: with R >= 1, a call answered 404 has returned after one
\* invocation.
C2_Witness ==
    \E c \in Calls :
        /\ Done(c) /\ RetryCount >= 1
        /\ ret[c] = HTTPError(req[c].method, 404, "not found")
        /\ invocations[c] = 1

\* C3: for an error that carries a received status, isRetryableError returns
\* true if and only if the status is in 500..599 or is 429 or 408.
C3_StatusPolicy ==
    (classified /\ probe.type = "HTTPError" /\ probe.status # 0)
        => (verdict <=> RetryableStatus(probe.status))

\* C4: with an uncancelled context and RetryCount = R >= 0, a call whose
\* every attempt fails at transport level (status 0) has invoked doRequest
\* R+1 times when it returns.
C4_TransportRetried ==
    \A c \in Calls :
        (Done(c) /\ ~Cancelled(c) /\ RetryCount >= 0 /\ OnlyTransportFailures(c))
            => invocations[c] = RetryCount + 1

\* C5: a call whose first attempt ends with a decode error has returned that
\* error after exactly one invocation and no retry delay.
C5_DecodeErrorOnce ==
    \A c \in Calls :
        (attempt[c] = 0 /\ lastErr[c] = PlainError("failed to unmarshal response"))
            => /\ Done(c)
               /\ ret[c] = lastErr[c]
               /\ invocations[c] = 1
               /\ delays[c] = 0

\* C6: a call whose first attempt ends with a serialization error has
\* returned that error after exactly one invocation, no round trip and one
\* token.
C6_SerializationErrorOnce ==
    \A c \in Calls :
        (attempt[c] = 0 /\ lastErr[c] = PlainError("failed to marshal request body"))
            => /\ Done(c)
               /\ ret[c] = lastErr[c]
               /\ invocations[c] = 1
               /\ netCalls[c] = 0
               /\ consumed[c] = 1

\* C7: a call whose ctx.Done() was closed while it was blocked in the token
\* select returns ctx.Err() and invokes doRequest no more.
C7_CancelDuringTokenWait ==
    \A c \in Calls :
        cancelAt[c] = "tokenBlocked"
            => /\ pc[c] \in {"tokenCtxWoken", "done"}
               /\ Done(c) => ret[c] = CtxErr
               /\ invocations[c] = invAtCancel[c]
               /\ consumed[c] = invAtCancel[c]

\* C7 witness: a call cancelled while blocked on the empty pool has returned
\* ctx.Err().
C7_Witness ==
    \E c \in Calls :
        /\ cancelAt[c] = "tokenBlocked"
        /\ Done(c)
        /\ ret[c] = CtxErr
        /\ invocations[c] >= 1

\* C8: a call whose ctx.Done() was closed while it was blocked in the retry
\* delay returns ctx.Err() without the delay running out and without a
\* further attempt.
C8_CancelDuringDelay ==
    \A c \in Calls :
        cancelAt[c] = "delayBlocked"
            => /\ pc[c] \in {"delayCtxWoken", "done"}
               /\ Done(c) => ret[c] = CtxErr
               /\ invocations[c] = invAtCancel[c]
               /\ delays[c] = delayAtCancel[c]
               /\ invocations[c] <= RetryCount

\* C8 witness: a call cancelled in the delay after its first attempt has
\* returned ctx.Err() with attempts left.
C8_Witness ==
    \E c \in Calls :
        /\ cancelAt[c] = "delayBlocked"
        /\ Done(c)
        /\ ret[c] = CtxErr
        /\ invocations[c] = 1
        /\ RetryCount >= 1

\* C9: a call whose ctx.Done() was closed while it was suspended - blocked in
\* the token select, waiting for the round trip, or blocked in the delay
\* select - returns ctx.Err(), never an *HTTPError and never the exhaustion
\* error.
C9_CancelSurfacesCtxErr ==
    \A c \in Calls :
        (/\ Done(c)
         /\ RetryCount >= 0
         /\ cancelAt[c] \in {"tokenBlocked", "inflight", "delayBlocked"})
            => ret[c] = CtxErr

\* C10: once ctx.Done() is closed, the call invokes doRequest no more.
C10_NoAttemptAfterCancel ==
    \A c \in Calls : Cancelled(c) => invocations[c] = invAtCancel[c]


\* C11: with RateLimit = N > 0 the pool holds between 0 and N tokens in every
\* state, and a tick that finds the pool holding N tokens leaves the pool as
\* it is: the token is neither buffered nor handed to anyone nor kept for
\* later.
C11_PoolBounded ==
    /\ [](RateLimit > 0 => rateLimiter \in 0..RateLimit)
    /\ [][(RateLimit > 0 /\ ticks' = ticks + 1 /\ rateLimiter = RateLimit)
            => /\ rateLimiter' = rateLimiter
               /\ refilled' = refilled
               /\ recvq' = recvq
               /\ consumed' = consumed]_vars

\* C11 witness: a tick has been dropped on a full pool, and the call has
\* since taken a token from it.
C11_Witness ==
    /\ RateLimit > 0
    /\ ticks > refilled
    /\ rateLimiter = RateLimit - 1
    /\ consumed[1] = 1


\* The sum of f[c] over the calls 1..n.
RECURSIVE SumTo(_, _)
SumTo(f, n) == IF n = 0 THEN 0 ELSE f[n] + SumTo(f, n - 1)

\* Tokens received from the pool, and doRequest invocations, by all calls.
TotalConsumed == SumTo(consumed, NumCalls)
TotalInvocations == SumTo(invocations, NumCalls)

\* C12: with RateLimit = N > 0 the pool holds N tokens when New has returned:
\* before the first tick the pool holds N less the tokens taken, and no call
\* blocks in the token select while fewer than N tokens have been taken.
C12_StartsFull ==
    RateLimit > 0
        => /\ ticks = 0 => rateLimiter = RateLimit - TotalConsumed
           /\ TotalConsumed < RateLimit
                => /\ rateLimiter > 0
                   /\ recvq = <<>>
                   /\ \A c \in Calls : pc[c] # "tokenBlocked"

\* C12 witness: N tokens have been taken and N attempts started before any
\* tick.
C12_Witness ==
    /\ RateLimit > 0
    /\ ticks = 0
    /\ TotalConsumed = RateLimit
    /\ TotalInvocations = RateLimit
    /\ rateLimiter = 0


\* C13: the attempts started through the client never exceed N plus the
\* ticks that have occurred; the tokens taken never exceed N plus the ticks
\* whose token was accepted; and while a call is blocked for a token before
\* the first tick, exactly N tokens have been taken.
C13_RateBound ==
    /\ TotalInvocations <= RateLimit + ticks
    /\ TotalConsumed <= RateLimit + refilled
    /\ refilled <= ticks
    /\ (ticks = 0 /\ recvq # <<>>) => TotalConsumed = RateLimit

\* C13 witness: against a target that has only answered 200, N attempts were
\* admitted from the full pool and one more with each tick.
C13_Witness ==
    /\ RateLimit > 0
    /\ ticks >= 1
    /\ TotalInvocations = RateLimit + ticks
    /\ \A c \in Calls : errs[c] \subseteq {NilErr}

\* C14: each token admits at most one attempt of one call, and the tokens in
\* the pool plus the tokens taken equal N plus the accepted refills, in every
\* state of every interleaving of the calls and the refill goroutine.
C14_TokenConservation ==
    /\ rateLimiter + TotalConsumed = RateLimit + refilled
    /\ \A c \in Calls :
          /\ invocations[c] <= consumed[c]
          /\ consumed[c] <= invocations[c] + 1
          /\ consumed[c] = invocations[c] + 1 => pc[c] = "request"
    /\ recvq # <<>> => rateLimiter = 0

\* C14 witness: two calls have both taken tokens, the pool is empty and at
\* least one of the tokens taken came from a tick.
C14_Witness ==
    /\ refilled >= 1
    /\ rateLimiter = 0
    /\ \E c, d \in Calls : c # d /\ consumed[c] >= 1 /\ consumed[d] >= 1


\* C15: a client with RateLimit = 0 fails fast: the process does not die of
\* the refill goroutine's panic and no call is left blocked for a token that
\* never arrives.
C15_ZeroRateFailsFast ==
    RateLimit = 0
        => /\ refill # "panicked"
           /\ \A c \in Calls : pc[c] # "tokenBlocked"

\* C16: when the last attempt of a call ended with an error of a
\* non-retryable status, the call has returned that very error, unwrapped:
\* it is the value doRequest returned, and its method, status and message
\* are those of the request and of one response of the upstream.
C16_NonRetryableVerbatim ==
    \A c \in Calls :
        (lastErr[c].type = "HTTPError" /\ NonRetryableStatus(lastErr[c].status))
            => /\ Done(c)
               /\ ret[c] = lastErr[c]
               /\ ret[c] \in errs[c]
               /\ ret[c].method = req[c].method
               /\ \E r \in Responses :
                     r.status = ret[c].status /\ r.body = ret[c].msg

\* C16 witness: a call answered 400 "bad request" on a later attempt has
\* returned status 400 with the message "bad request".
C16_Witness ==
    \E c \in Calls :
        /\ Done(c)
        /\ ret[c] = HTTPError(req[c].method, 400, "bad request")
        /\ invocations[c] >= 2


\* C17: an exhaustion error states RetryCount + 1 attempts, which is the
\* number of doRequest invocations the call has made, and wraps lastErr; and
\* lastErr is the error of the latest attempt: a step in which doRequest
\* returns an error not returned before leaves that error in lastErr and in
\* the exhaustion error, if the step returns one.
C17_ExhaustionWrapsLast ==
    /\ [](\A c \in Calls :
            (Done(c) /\ ret[c].type = "exhausted" /\ RetryCount >= 0)
                => /\ ret[c].n = RetryCount + 1
                   /\ ret[c].n = invocations[c]
                   /\ ret[c].err = lastErr[c]
                   /\ ret[c].err \in errs[c] \ {NilErr})
    /\ [][\A c \in Calls : \A e \in errs'[c] \ errs[c] :
            e # NilErr
                => /\ lastErr'[c] = e
                   /\ ret'[c].type = "exhausted" => ret'[c].err = e]_vars

\* C17 witness: a call answered 500 and then something else retryable has
\* returned the exhaustion error around the 503 of its last attempt.
C17_Witness ==
    \E c \in Calls :
        /\ Done(c)
        /\ RetryCount >= 1
        /\ ret[c] = Exhausted(RetryCount + 1,
                              HTTPError(req[c].method, 503, "unavailable"))
        /\ HTTPError(req[c].method, 500, "internal error") \in errs[c]


\* C18: an uncancelled call whose attempts failed with retryable statuses
\* only, until one succeeded, has returned nil; with k+1 the number of its
\* attempts, k <= RetryCount, it has waited exactly k retry delays, taken
\* k+1 tokens and made k+1 round trips.
C18_SuccessAfterRetries ==
    \A c \in Calls :
        (/\ Done(c)
         /\ ~Cancelled(c)
         /\ NilErr \in errs[c]
         /\ \A e \in errs[c] \ {NilErr} :
               e.type = "HTTPError" /\ RetryableStatus(e.status))
            => /\ ret[c] = NilErr
               /\ invocations[c] <= RetryCount + 1
               /\ delays[c] = invocations[c] - 1
               /\ attempt[c] = invocations[c] - 1
               /\ consumed[c] = invocations[c]
               /\ netCalls[c] = invocations[c]

\* C18 witness: with RetryCount >= 2, a call answered 500 on every attempt
\* but the last permitted one, and 200 on that, has returned nil after
\* RetryCount + 1 attempts and RetryCount delays.
C18_Witness ==
    \E c \in Calls :
        /\ Done(c)
        /\ ~Cancelled(c)
        /\ RetryCount >= 2
        /\ ret[c] = NilErr
        /\ errs[c] = {HTTPError(req[c].method, 500, "internal error"), NilErr}
        /\ invocations[c] = RetryCount + 1
        /\ delays[c] = RetryCount


\* C19: a call that has returned has returned nil after an attempt that
\* succeeded, or (1) the error of its last attempt, unchanged, or (2) the
\* exhaustion error around the error of its last attempt, after
\* RetryCount + 1 attempts that all failed, or (3) ctx.Err() with ctx.Done()
\* closed; nothing else.
C19_ReturnShapes ==
    \A c \in Calls :
        Done(c)
            => \/ /\ ret[c] = NilErr
                  /\ NilErr \in errs[c]
               \/ /\ ret[c].type \in {"HTTPError", "error"}
                  /\ ret[c] = lastErr[c]
                  /\ ret[c] \in errs[c]
               \/ /\ ret[c] = Exhausted(RetryCount + 1, lastErr[c])
                  /\ invocations[c] = RetryCount + 1
                  /\ NilErr \notin errs[c]
                  /\ RetryCount >= 0 => lastErr[c] \in errs[c]
               \/ /\ ret[c] = CtxErr
                  /\ Cancelled(c)

\* C19 witness: an uncancelled call has returned the transport error of its
\* only attempt.
C19_Witness ==
    \E c \in Calls :
        /\ Done(c)
        /\ ~Cancelled(c)
        /\ ret[c] = HTTPError(req[c].method, 0, "connection refused")
        /\ invocations[c] = 1


\* s without its last character if that is a slash.
StripTrailingSlash(s) ==
    IF s # <<>> /\ s[Len(s)] = "/" THEN SubSeq(s, 1, Len(s) - 1) ELSE s

\* s without its first character if that is a slash.
StripLeadingSlash(s) ==
    IF s # <<>> /\ s[1] = "/" THEN SubSeq(s, 2, Len(s)) ELSE s

\* C20: for a non-empty base URL and a path, buildURL returns the base URL
\* and the path joined by exactly one slash, whether or not the path starts
\* with a slash and whether or not the base URL ends with one.
C20_OneSeparatingSlash ==
    (built # "no" /\ BaseURL # <<>> /\ path # <<>>)
        => /\ built = "yes"
           /\ fullURL = StripTrailingSlash(BaseURL) \o <<"/">>
                            \o StripLeadingSlash(path)


\* C21: once ctx.Done() of a call under way is closed, the call eventually
\* returns: a call blocked in the token select or in the delay select is woken and
\* returns, with no token in the pool and no tick of the refill goroutine
\* needed. (RateLimit = 0, where the refill goroutine's panic ends the
\* process, is the case of C15.)
C21_CancelledCallReturns ==
    \A c \in Calls :
        (Cancelled(c) /\ pc[c] # "idle" /\ RateLimit > 0) ~> Done(c)

\* C21 witness: a call cancelled while blocked on the empty pool has returned
\* though no tick was ever delivered and the pool is still empty.
C21_Witness ==
    \E c \in Calls :
        /\ RateLimit > 0
        /\ cancelAt[c] = "tokenBlocked"
        /\ Done(c)
        /\ ticks = 0
        /\ rateLimiter = 0


\* C22: every doRequest invocation of a call is preceded by a token of its
\* own: the tokens a call has received equal its invocations, but for the
\* one token it holds between the token select and the invocation it pays
\* for; and an invocation is made only by a call holding such a token, which
\* it takes no other token for.
C22_TokenPerAttempt ==
    /\ [](\A c \in Calls :
            /\ pc[c] # "request" => consumed[c] = invocations[c]
            /\ pc[c] = "request" => consumed[c] = invocations[c] + 1)
    /\ [][\A c \in Calls :
            invocations'[c] # invocations[c]
                => /\ invocations'[c] = invocations[c] + 1
                   /\ consumed[c] = invocations[c] + 1
                   /\ consumed'[c] = consumed[c]]_vars

\* C22 witness: a call has made three attempts on three tokens, one of them
\* delivered by a tick.
C22_Witness ==
    \E c \in Calls :
        /\ Done(c)
        /\ invocations[c] = 3
        /\ consumed[c] = 3
        /\ refilled >= 1


\* C23: no step of a call puts a token into the pool: a step that is not a
\* tick of the refill goroutine leaves the pool as it is or takes one token
\* from it, and a step that adds a token is a tick that adds exactly one.
C23_CallersNeverReturnTokens ==
    [][/\ ticks' = ticks
          => /\ rateLimiter' <= rateLimiter
             /\ rateLimiter' >= rateLimiter - 1
             /\ refilled' = refilled
       /\ rateLimiter' > rateLimiter
          => /\ ticks' = ticks + 1
             /\ rateLimiter' = rateLimiter + 1
             /\ refilled' = refilled + 1
             /\ pc' = pc]_vars

\* C23 witness: a call has returned ctx.Err() after a failed attempt, a retry
\* delay and a second attempt whose token came from a tick, and the pool is
\* empty.
C23_Witness ==
    \E c \in Calls :
        /\ RateLimit > 0
        /\ Done(c)
        /\ ret[c] = CtxErr
        /\ invocations[c] = 2
        /\ delays[c] = 1
        /\ refilled >= 1
        /\ rateLimiter = 0

\* C24: a token wait that ends with ctx.Err() takes no token. A call woken by
\* ctx.Done(), and a call that has returned ctx.Err(), has received exactly
\* the tokens its invocations were made on; no token has left the pool but
\* into a call's hands; and the receivers a tick can hand its token to are
\* calls that are blocked and not cancelled, so that a cancelled waiter takes
\* no token from the other calls.
C24_CancelledWaitTakesNoToken ==
    /\ \A c \in Calls :
          /\ pc[c] = "tokenCtxWoken" => consumed[c] = invocations[c]
          /\ (Done(c) /\ ret[c] = CtxErr) => consumed[c] = invocations[c]
          /\ (\E i \in 1..Len(recvq) : recvq[i] = c)
                => pc[c] = "tokenBlocked" /\ ~Cancelled(c)
    /\ rateLimiter = RateLimit + refilled - TotalConsumed

\* C24 witness: a call cancelled while blocked for a token has returned
\* ctx.Err() without ever receiving one, and the token of the next tick went
\* to the second attempt of the other call.
C24_Witness ==
    \E c, d \in Calls :
        /\ c # d
        /\ cancelAt[c] = "tokenBlocked"
        /\ Done(c) /\ ret[c] = CtxErr /\ consumed[c] = 0
        /\ consumed[d] = 2
        /\ refilled = 1

\* C25: whatever the attempts of a call end with and whenever ctx.Done() is
\* closed, the call invokes doRequest at most RetryCount + 1 times.
C25_AtMostRetryCountPlusOne ==
    \A c \in Calls : invocations[c] <= RetryCount + 1

\* C25 witness: a call that was cancelled on its way and saw two different
\* errors has made all of its RetryCount + 1 = 3 invocations.
C25_Witness ==
    \E c \in Calls :
        /\ RetryCount = 2
        /\ Cancelled(c)
        /\ invocations[c] = RetryCount + 1
        /\ Cardinality(errs[c]) >= 2


\* C26: the attempts of a call are strictly sequential. At most one
\* doRequest invocation of a call has not returned, and that only while the
\* call waits for hc.client.Do; every body of a response delivered to the
\* call has been closed whenever the call is outside doRequest; the call
\* waits for the token of attempt k only when k invocations have returned;
\* and a step that takes a token or invokes doRequest is made with every
\* earlier invocation returned and every body closed.
C26_AttemptsSequential ==
    /\ [](\A c \in Calls :
            /\ returned[c] <= invocations[c]
            /\ invocations[c] <= returned[c] + 1
            /\ invocations[c] = returned[c] + 1 <=> pc[c] = "inflight"
            /\ opened[c] = closed[c]
            /\ opened[c] <= returned[c]
            /\ pc[c] \in {"tokenSelect", "tokenBlocked", "tokenCtxWoken", "request"}
                  => returned[c] = attempt[c])
    /\ [][\A c \in Calls :
            (consumed'[c] # consumed[c] \/ invocations'[c] # invocations[c])
                => /\ pc[c] # "inflight"
                   /\ returned[c] = invocations[c]
                   /\ closed[c] = opened[c]]_vars

\* C26 witness: a call is waiting for the token of its third attempt after
\* two attempts that both received a response, with both bodies closed.
C26_Witness ==
    \E c \in Calls :
        /\ pc[c] = "tokenBlocked"
        /\ attempt[c] = 2
        /\ returned[c] = 2
        /\ opened[c] = 2
        /\ closed[c] = 2


\* The delays a call has waited to the end when its loop variable is a.
DelaysBefore(a) ==
    IF a <= RetryCount THEN a ELSE IF RetryCount >= 0 THEN RetryCount ELSE 0

\* C27: the retry delay is waited exactly between consecutive attempts. The
\* delays waited to the end are one per attempt begun after the first; a
\* call is in the delay only after a retryable failure of attempt number
\* a < RetryCount; a delay that runs out leads to the token select of the
\* next attempt, and the token of attempt k is taken only after k delays;
\* a call that returned nil or a non-retryable error has waited no delay
\* after its last attempt, nor has one that returned the exhaustion error.
C27_DelayBetweenAttempts ==
    /\ [](\A c \in Calls :
            /\ delays[c] = DelaysBefore(attempt[c])
            /\ pc[c] \in {"delaySelect", "delayBlocked", "delayCtxWoken"}
                  => /\ isRetryableError(lastErr[c])
                     /\ lastErr[c] # NilErr
                     /\ attempt[c] < RetryCount
                     /\ returned[c] = attempt[c] + 1
            /\ (Done(c) /\ ret[c].type \in {"nil", "HTTPError", "error"})
                  => delays[c] = invocations[c] - 1
            /\ (Done(c) /\ ret[c].type = "exhausted" /\ RetryCount >= 0)
                  => delays[c] = RetryCount /\ invocations[c] = RetryCount + 1)
    /\ [][\A c \in Calls :
            /\ delays'[c] # delays[c]
                  => /\ pc[c] \in {"delaySelect", "delayBlocked"}
                     /\ delays'[c] = delays[c] + 1
                     /\ pc'[c] = "tokenSelect"
                     /\ consumed'[c] = consumed[c]
            /\ consumed'[c] # consumed[c]
                  => delays[c] = consumed[c]]_vars

\* C27 witness: with RetryCount = 2 a call has returned the exhaustion error
\* after three attempts and two delays, none after the third attempt.
C27_Witness ==
    \E c \in Calls :
        /\ RetryCount = 2
        /\ Done(c)
        /\ ret[c].type = "exhausted"
        /\ invocations[c] = 3
        /\ delays[c] = 2


\* C28: success is terminal. A call one of whose attempts has returned nil
\* has returned nil, with that attempt its last; and from then on no step
\* changes what it has returned, invokes doRequest for it, hands it a token,
\* queues it for one or lets it wait a delay.
C28_SuccessTerminal ==
    /\ [](\A c \in Calls :
            NilErr \in errs[c]
                => /\ Done(c)
                   /\ ret[c] = NilErr
                   /\ returned[c] = invocations[c]
                   /\ consumed[c] = invocations[c]
                   /\ delays[c] = invocations[c] - 1
                   /\ \A i \in 1..Len(recvq) : recvq[i] # c)
    /\ [][\A c \in Calls :
            NilErr \in errs[c]
                => /\ pc'[c] = "done"
                   /\ ret'[c] = NilErr
                   /\ invocations'[c] = invocations[c]
                   /\ netCalls'[c] = netCalls[c]
                   /\ consumed'[c] = consumed[c]
                   /\ delays'[c] = delays[c]
                   /\ attempt'[c] = attempt[c]]_vars

\* C28 witness: with RetryCount = 2 a call has returned nil after its first
\* attempt; a tick has since refilled the pool, and the token is still there.
C28_Witness ==
    \E c \in Calls :
        /\ RetryCount = 2
        /\ RateLimit > 0
        /\ Done(c)
        /\ ret[c] = NilErr
        /\ invocations[c] = 1
        /\ refilled >= 1
        /\ rateLimiter = RateLimit


\* hc.client.Do was reached and delivered a response.
ResponseReceived ==
    /\ doRequestEnter(execReq, execCtxDone) = InFlight
    /\ execOut.kind = "resp"

C30_NoResponseStatusZero ==
    (/\ executed
     /\ execReq.body # "bad"
     /\ execReq.url # "bad"
     /\ execCtxDone \/ execOut.kind = "neterr")
        => /\ execErr.type = "HTTPError"
           /\ execErr.status = 0
           /\ execErr.method = execReq.method
           /\ ~execCtxDone => execErr.msg = execOut.msg

\* C30 witness: the deadline passed during the round trip of a Post and
\* doRequest has returned an *HTTPError of status 0.
C30_Witness ==
    /\ executed
    /\ ~execCtxDone
    /\ execReq = Post("ok", "ok", TRUE)
    /\ execOut = NetErr("context deadline exceeded")
    /\ execErr = HTTPError("POST", 0, "context deadline exceeded")


\* doRequest received a response of a 2xx status, read its body, and was
\* passed a destination.
DecodeCase ==
    /\ executed
    /\ ResponseReceived
    /\ execOut.readable
    /\ execOut.status \in 200..299
    /\ execReq.result

\* C31 as stated: with a 2xx status and a destination, doRequest decodes the
\* body into the destination and returns nil, or returns the decode error
\* when the body is not JSON - an empty body included.
C31_DecodeOrError ==
    DecodeCase
        => IF Unmarshals(execOut.body)
           THEN execErr = NilErr /\ execDest = execOut.body
           ELSE execErr = PlainError("failed to unmarshal response")

\* C31 as amended: the same for a body that is not empty; with an empty body
\* doRequest returns nil and leaves the destination as it was.
C31_DecodeNonEmpty ==
    DecodeCase
        => IF Len(execOut.body) = 0
           THEN execErr = NilErr /\ execDest = Untouched
           ELSE IF Unmarshals(execOut.body)
           THEN execErr = NilErr /\ execDest = execOut.body
           ELSE /\ execErr = PlainError("failed to unmarshal response")
                /\ execDest = Untouched

\* C31 witness: a 201 response with the body "<html>" to a Post with a
\* destination has ended in the decode error.
C31_Witness ==
    /\ DecodeCase
    /\ execReq = Post("ok", "ok", TRUE)
    /\ execOut = Response(201, "<html>", TRUE)
    /\ execErr = PlainError("failed to unmarshal response")

\* C32: every error doRequest returns is an *HTTPError.
C32_OnlyHTTPError ==
    (executed /\ execErr # NilErr) => execErr.type = "HTTPError"


\* C33: one doRequest invocation makes at most one round trip and touches
\* nothing of the client. The round trips of a call never exceed its
\* invocations, and a round trip is started only by the step that enters
\* doRequest; a step in which doRequest is entered or returns leaves the
\* pool, the tokens taken, the delays waited and the configuration as they
\* were, invokes doRequest no second time, and changes the loop variable
\* only by the loop's own increment on the way to the exhaustion error.
C33_ExecutorFrame ==
    /\ [](\A c \in Calls : netCalls[c] <= invocations[c])
    /\ [][\A c \in Calls :
            /\ netCalls'[c] # netCalls[c]
                  => /\ netCalls'[c] = netCalls[c] + 1
                     /\ invocations'[c] = invocations[c] + 1
            /\ (invocations'[c] # invocations[c] \/ returned'[c] # returned[c])
                  => /\ invocations'[c] <= invocations[c] + 1
                     /\ returned'[c] <= returned[c] + 1
                     /\ <<rateLimiter, recvq, ticks, refilled>>'
                            = <<rateLimiter, recvq, ticks, refilled>>
                     /\ consumed' = consumed
                     /\ delays' = delays
                     /\ <<RetryCount, RateLimit>>' = <<RetryCount, RateLimit>>
                     /\ attempt'[c] # attempt[c]
                           => /\ attempt'[c] = attempt[c] + 1
                              /\ ret'[c].type = "exhausted"]_vars

\* C33 witness: a call has invoked doRequest twice, and the second
\* invocation, entered with ctx.Done() closed, made no round trip.
C33_Witness ==
    \E c \in Calls :
        /\ Done(c)
        /\ invocations[c] = 2
        /\ returned[c] = 2
        /\ netCalls[c] = 1


\* C34: whenever doRequest has returned, the body of every response it
\* received is closed: in every state a call can be seen in - waiting for a
\* token, in a delay, returned - as many bodies have been closed as were
\* opened, and no more bodies were opened than round trips made.
C34_BodyReleased ==
    \A c \in Calls :
        /\ closed[c] = opened[c]
        /\ opened[c] <= netCalls[c]
        /\ Done(c) => closed[c] <= returned[c]

\* C34 witness: a call has returned after three attempts that each received
\* a response: one whose body could not be read, one of status 500 and one
\* whose body could not be decoded; three bodies were opened and closed.
C34_Witness ==
    \E c \in Calls :
        /\ Done(c)
        /\ errs[c] = {PlainError("failed to read response body"),
                      HTTPError(req[c].method, 500, "internal error"),
                      PlainError("failed to unmarshal response")}
        /\ opened[c] = 3
        /\ closed[c] = 3


NoAcquirer ==
    /\ recvq = <<>>
    /\ \A c \in Calls : pc[c] # "tokenSelect"

\* C37: the refill goroutine of a client with RateLimit > 0 never exits and
\* never blocks: once running it stays running and its next tick can always
\* be processed, with the pool full or empty and whatever the calls have
\* done; and if from some point on no call is about to acquire a token, the
\* pool eventually holds RateLimit tokens and keeps them.
C37_RefillNeverStops ==
    /\ [](RateLimit > 0 /\ refill = "running" => ENABLED Ticker)
    /\ [][RateLimit > 0 /\ refill = "running" => refill' = "running"]_vars
    /\ <>[](RateLimit > 0 /\ NoAcquirer) => <>[](rateLimiter = RateLimit)

\* C37 witness: every call has returned, one of them cancelled, tokens were
\* taken, the count of ticks has reached MaxTicks and the pool is full again.
C37_Witness ==
    /\ RateLimit > 0
    /\ \A c \in FairCalls : Done(c)
    /\ \E c \in Calls : Cancelled(c)
    /\ \E c \in Calls : consumed[c] >= 1
    /\ ticks = MaxTicks
    /\ refilled >= 1
    /\ rateLimiter = RateLimit


\* The entries of one level call c has handed to hc.logger, in order.
Entries(c, level) == SelectSeq(logs[c], LAMBDA e : e.level = level)

\* How many times call c has logged the entry e.
TimesLogged(c, e) == Cardinality({i \in DOMAIN logs[c] : logs[c][i] = e})

\* C38: the log entries of a call follow its outcome. A call that returned
\* nil has logged one debug entry, whose attempt number is the number of
\* attempts the call made; every attempt of a call that was followed by
\* another attempt has one warn entry, carrying its number; a call that
\* returned the non-retryable error of its last attempt or the exhaustion
\* error has logged one error entry, the one of that outcome; and no call has
\* logged both a debug entry and an error entry.
C38_LogsFollowOutcome ==
    \A c \in Calls :
        /\ (Done(c) /\ ret[c] = NilErr)
               => Entries(c, "debug") = <<DebugSuccess(invocations[c])>>
        /\ \A k \in 1..(invocations[c] - 1) :
               TimesLogged(c, WarnRetrying(k)) = 1
        /\ (Done(c) /\ ret[c].type \in {"HTTPError", "error"})
               => Entries(c, "error") = <<ErrorNonRetryable>>
        /\ (Done(c) /\ ret[c].type = "exhausted")
               => Entries(c, "error") = <<ErrorExhausted(RetryCount + 1)>>
        /\ Entries(c, "debug") = <<>> \/ Entries(c, "error") = <<>>

\* C38 witness: a call has succeeded at its third attempt and logged two
\* warn entries and the debug entry of attempt 3, and no error entry.
C38_Witness ==
    \E c \in Calls :
        /\ Done(c)
        /\ ret[c] = NilErr
        /\ invocations[c] = 3
        /\ logs[c] = <<WarnRetrying(1), WarnRetrying(2), DebugSuccess(3)>>


\* C39: with the refill goroutine and the calls' goroutines scheduled fairly,
\* RetryCount >= 0 and every round trip returning, every call that was issued
\* eventually returns, its ctx cancelled or not: no call waits for a token
\* forever.
C39_EveryCallTerminates ==
    \A c \in Calls :
        (RetryCount >= 0 /\ pc[c] \notin {"unused", "idle"}) ~> Done(c)


====
